---- MODULE Spec2Model ----
(***************************************************************************)
(* Model of src/example/after-using-arjan-fanboy.py: a LightBulb device    *)
(* (a Switchable), the ElectricPowerSwitch controller that toggles it, and *)
(* the entry routine main().  The classes are importable, so besides       *)
(* main() the model has a client that constructs controllers with any      *)
(* constructor arguments, presses them in any order and also calls the     *)
(* devices directly.                                                       *)
(***************************************************************************)
EXTENDS Integers, Sequences, FiniteSets, TLC

\* Bound on the number of device calls in one behaviour.
MaxCalls == 4

\* The LightBulb instances and the ElectricPowerSwitch instances of a run.
Devices == {"bulb", "bulb2"}
Controllers == {"switch", "switch2"}

\* A Switchable that is not a LightBulb: its operations print nothing and
\* raise while it is broken.
OtherDevice == "other"
Switchables == Devices \cup {OtherDevice}

\* Caller tag of a device call made by the client, not by a controller.
Direct == "direct"
Callers == Controllers \cup {Direct}

\* What the constructor call passes for is_on: nothing, True or False.
CtorArgs == {"omitted", "True", "False"}

VARIABLES
    pc,        \* position of the driver: main()'s next line, or "client"
    switches,  \* controller id -> the ElectricPowerSwitch instance's slots
    stdout,    \* the lines printed so far
    calls,     \* history of device calls: [caller, device, op]
    presses,   \* controller id -> number of press() calls made on it
    emitted,   \* caller -> the lines printed during that caller's calls
    ctor,      \* controller id -> the is_on argument it was constructed with
    outcome,   \* caller -> how its last press() or device call ended
    broken     \* whether the operations of OtherDevice raise at present

vars ==
    <<pc, switches, stdout, calls, presses, emitted, ctor, outcome, broken>>

----------------------------------------------------------------------------
(* LightBulb *)

OnLine == "LightBulb: turned on..."
OffLine == "LightBulb: turned off..."

\* A device operation maps stdout to the new stdout and says whether it
\* returned (ok) or raised.  LightBulb only prints and returns None.
\* Variant: the bulb prints the other operation's text.
turn_on_wrong_line(d, o) == [out |-> Append(o, OffLine), ok |-> TRUE]

\* Variant: a bulb that remembers it is on and rejects a second turn_on.
turn_on_rejects_redundant(d, o) ==
    IF o # <<>> /\ o[Len(o)] = OnLine
    THEN [out |-> o, ok |-> FALSE]
    ELSE [out |-> Append(o, OnLine), ok |-> TRUE]

turn_on(d, o) == [out |-> Append(o, OnLine), ok |-> TRUE]

\* Variant: the bulb prints the other operation's text.
turn_off_wrong_line(d, o) == [out |-> Append(o, OnLine), ok |-> TRUE]

\* Variant: turning off raises after printing.
turn_off_raises(d, o) == [out |-> Append(o, OffLine), ok |-> FALSE]

turn_off(d, o) == [out |-> Append(o, OffLine), ok |-> TRUE]

----------------------------------------------------------------------------
(* Switchable *)

\* An operation of a Switchable that is not a LightBulb: the protocol fixes
\* only the signature; this one raises exactly while it is broken.
switchable_op(d, o) == [out |-> o, ok |-> ~broken]

----------------------------------------------------------------------------
(* ElectricPowerSwitch *)

\* Variant: the field defaults to True.
is_on_default_true == TRUE

\* The default of the is_on field.
is_on_default == FALSE

\* Variant: the constructor ignores the is_on argument.
ElectricPowerSwitch_ignores_is_on(d, a) ==
    [device |-> d, is_on |-> is_on_default]

\* The dataclass constructor: device is required, is_on is optional.
ElectricPowerSwitch(d, a) ==
    [device |-> d,
     is_on |-> IF a = "omitted" THEN is_on_default ELSE (a = "True")]

\* Variant: press() asks the device (here: what was printed last) instead
\* of its own flag.
press_op_inspects_device(sw) ==
    IF stdout # <<>> /\ stdout[Len(stdout)] = OnLine
    THEN "turn_off" ELSE "turn_on"

\* Variant: the branches are swapped.
press_op_swapped(sw) == IF sw.is_on THEN "turn_on" ELSE "turn_off"

\* Variant: the branch on the flag is lost and press() always turns on.
press_op_always_on(sw) == "turn_on"

\* The device operation press() selects from the controller's own flag.
press_op(sw) == IF sw.is_on THEN "turn_off" ELSE "turn_on"

\* Variant: the ON branch falls through into the OFF branch (no return).
press_calls_fallthrough(sw) ==
    IF sw.is_on THEN <<"turn_off", "turn_on">> ELSE <<"turn_on">>

\* Variant: the OFF branch deactivates before it activates.
press_calls_off_then_on(sw) ==
    IF sw.is_on THEN <<"turn_off">> ELSE <<"turn_off", "turn_on">>

\* The device calls press() makes, in order.
press_calls(sw) == <<press_op(sw)>>

\* Variant: both branches write True.
press_flag_stuck(sw) == TRUE

\* Variant: the flag is not written.
press_flag_unwritten(sw) == sw.is_on

\* The value press() writes to is_on after the device call returned.
press_flag(sw) == IF sw.is_on THEN FALSE ELSE TRUE

\* Run the device calls in cs on device d from stdout o, stopping at a
\* raise: the new stdout, whether all returned, and the calls made.
RECURSIVE run_calls(_, _, _)
run_calls(cs, d, o) ==
    IF cs = <<>> THEN [out |-> o, ok |-> TRUE, made |-> <<>>]
    ELSE LET r == IF d \notin Devices THEN switchable_op(d, o)
                  ELSE IF Head(cs) = "turn_on" THEN turn_on(d, o)
                  ELSE turn_off(d, o)
         IN  IF r.ok
             THEN LET rest == run_calls(Tail(cs), d, r.out)
                  IN  [rest EXCEPT !.made = <<Head(cs)>> \o @]
             ELSE [out |-> r.out, ok |-> FALSE, made |-> <<Head(cs)>>]

\* The call-history entries of the calls cs made by caller c on device d.
call_records(c, d, cs) ==
    [i \in 1..Len(cs) |-> [caller |-> c, device |-> d, op |-> cs[i]]]

\* The lines of o2 printed after o1.
printed(o1, o2) == SubSeq(o2, Len(o1) + 1, Len(o2))

\* Variant: the flag is written before the device call, so it is written
\* even when the call raises.
flag_written_first(sw, ok) == press_flag(sw)

\* The value of is_on when press() ends: the write of lines 29/32 comes
\* after the device call and is skipped when that call raised.
flag_after_call(sw, ok) == IF ok THEN press_flag(sw) ELSE sw.is_on

\* Variant: is_on is a class attribute shared by all instances.
set_is_on_shared(sws, c, flag) ==
    [x \in DOMAIN sws |-> [sws[x] EXCEPT !.is_on = flag]]

\* The assignment self.is_on = flag on the instance c.
set_is_on(sws, c, flag) == [sws EXCEPT ![c].is_on = flag]

\* press() on controller c: the device call first, then the flag; a raise
\* of the device call propagates and leaves the flag as it was.
press(c) ==
    LET sw == switches[c]
        cs == press_calls(sw)
        r  == run_calls(cs, sw.device, stdout)
    IN  /\ Len(calls) + Len(cs) <= MaxCalls
        /\ stdout' = r.out
        /\ calls' = calls \o call_records(c, sw.device, r.made)
        /\ emitted' = [emitted EXCEPT ![c] = @ \o printed(stdout, r.out)]
        /\ switches' = set_is_on(switches, c, flag_after_call(sw, r.ok))
        /\ outcome' = [outcome EXCEPT
                          ![c] = IF r.ok THEN "returned" ELSE "raised"]
        /\ presses' = [presses EXCEPT ![c] = @ + 1]
        /\ UNCHANGED <<ctor, broken>>

----------------------------------------------------------------------------
(* main() *)

\* After lines 36-37: one bulb, one switch built with only the device.
InitMain ==
    /\ pc = "L38"
    /\ ctor = [c \in {"switch"} |-> "omitted"]
    /\ switches = [c \in {"switch"} |-> ElectricPowerSwitch("bulb", ctor[c])]

\* Line 38: the first switch.press().
MainPress1 ==
    /\ pc = "L38"
    /\ press("switch")
    /\ pc' = IF outcome'["switch"] = "returned" THEN "L39" ELSE "raised"

\* Line 39: the second switch.press(); main() then returns.
MainPress2 ==
    /\ pc = "L39"
    /\ press("switch")
    /\ pc' = IF outcome'["switch"] = "returned" THEN "done" ELSE "raised"

----------------------------------------------------------------------------
(* A client of the classes *)

\* The client has constructed both controllers, each on some device and
\* with some is_on argument; "switch" is on "bulb".
InitClient ==
    /\ pc = "client"
    /\ ctor \in [Controllers -> CtorArgs]
    /\ \E d \in Devices :
          switches = [c \in Controllers |->
                        ElectricPowerSwitch(IF c = "switch" THEN "bulb" ELSE d,
                                            ctor[c])]

\* The client presses controller c.
ClientPress(c) ==
    /\ pc = "client"
    /\ press(c)
    /\ UNCHANGED pc

\* The client calls device d's operation cs[1] itself.
direct_call(d, cs) ==
    LET r == run_calls(cs, d, stdout)
    IN  /\ pc = "client"
        /\ Len(calls) + Len(cs) <= MaxCalls
        /\ stdout' = r.out
        /\ calls' = calls \o call_records(Direct, d, r.made)
        /\ emitted' = [emitted EXCEPT ![Direct] = @ \o printed(stdout, r.out)]
        /\ outcome' = [outcome EXCEPT
                          ![Direct] = IF r.ok THEN "returned" ELSE "raised"]
        /\ UNCHANGED <<pc, switches, presses, ctor, broken>>

DirectTurnOn(d) == direct_call(d, <<"turn_on">>)

DirectTurnOff(d) == direct_call(d, <<"turn_off">>)

----------------------------------------------------------------------------
(* The specification *)

Init ==
    /\ InitMain \/ InitClient
    /\ stdout = <<>>
    /\ calls = <<>>
    /\ presses = [c \in DOMAIN switches |-> 0]
    /\ emitted = [c \in Callers |-> <<>>]
    /\ outcome = [c \in DOMAIN switches \cup {Direct} |-> "none"]
    /\ broken = FALSE

Next ==
    \/ MainPress1
    \/ MainPress2
    \/ \E c \in Controllers : ClientPress(c)
    \/ \E d \in Devices : DirectTurnOn(d)
    \/ \E d \in Devices : DirectTurnOff(d)

Spec == Init /\ [][Next]_vars

----------------------------------------------------------------------------
(* A client that also uses a Switchable whose operations can raise *)

\* "switch" is bound to the other Switchable, "switch2" to any device.
InitOther ==
    /\ pc = "client"
    /\ ctor \in [Controllers -> CtorArgs]
    /\ \E d \in Switchables :
          switches = [c \in Controllers |->
                        ElectricPowerSwitch(
                            IF c = "switch" THEN OtherDevice ELSE d, ctor[c])]
    /\ stdout = <<>>
    /\ calls = <<>>
    /\ presses = [c \in Controllers |-> 0]
    /\ emitted = [c \in Callers |-> <<>>]
    /\ outcome = [c \in Callers |-> "none"]
    /\ broken \in BOOLEAN

\* The other Switchable breaks (b) or is repaired (~b).
SetBroken(b) ==
    /\ pc = "client"
    /\ broken # b
    /\ broken' = b
    /\ UNCHANGED <<pc, switches, stdout, calls, presses, emitted, ctor,
                   outcome>>

NextOther ==
    \/ \E c \in Controllers : ClientPress(c)
    \/ \E d \in Devices : DirectTurnOn(d)
    \/ \E d \in Devices : DirectTurnOff(d)
    \/ \E b \in BOOLEAN : SetBroken(b)

SpecOther == InitOther /\ [][NextOther]_vars

----------------------------------------------------------------------------
(* Derived views of the state *)

\* The controllers that exist in this run.
Switches == DOMAIN switches

\* Built with only a device argument.
Fresh(c) == ctor[c] = "omitted"

Odd(n) == n % 2 = 1

\* The operations caller c has called, in order.
OpsBy(c) ==
    LET mine == SelectSeq(calls, LAMBDA r : r.caller = c)
    IN  [i \in 1..Len(mine) |-> mine[i].op]

\* How many entries of sequence s satisfy x = s[i].
Count(s, x) == Cardinality({i \in 1..Len(s) : s[i] = x})

\* The type of the state.
TypeOK ==
    /\ pc \in {"client", "L38", "L39", "done", "raised"}
    /\ Switches \subseteq Controllers
    /\ \A c \in Switches :
          /\ switches[c].device \in Switchables
          /\ switches[c].is_on \in BOOLEAN
          /\ presses[c] \in 0..MaxCalls
          /\ ctor[c] \in CtorArgs
          /\ outcome[c] \in {"none", "returned", "raised"}
    /\ outcome[Direct] \in {"none", "returned", "raised"}
    /\ broken \in BOOLEAN
    /\ Len(calls) <= MaxCalls
    /\ \A i \in 1..Len(stdout) : stdout[i] \in {OnLine, OffLine}

\* The last element of a nonempty sequence.
Last(s) == s[Len(s)]

\* The call-history entry of caller c calling op on device d.
Call(c, d, op) == [caller |-> c, device |-> d, op |-> op]

\* This step is a press() on controller c.
Pressed(c) == presses'[c] = presses[c] + 1

----------------------------------------------------------------------------
(* The claims *)

\* C1: after N press() calls on a controller constructed with the default
\* flag, is_on is true exactly when N is odd.
C1_ParityOfPresses ==
    \A c \in Switches :
        Fresh(c) => (switches[c].is_on <=> Odd(presses[c]))

\* C1 witness: a default-constructed controller after three presses, ON.
C1_Witness ==
    \E c \in Switches :
        Fresh(c) /\ presses[c] = 3 /\ switches[c].is_on

\* C2: every press() makes exactly one call on the bound device, so after N
\* presses the controller has made exactly N device calls, all on its own
\* device, and exactly N lines were printed by them; when nobody else calls
\* the devices, those are all the calls and all of stdout.
C2_OneCallPerPress ==
    \A c \in Switches :
        /\ Len(OpsBy(c)) = presses[c]
        /\ Len(emitted[c]) = presses[c]
        /\ \A i \in 1..Len(calls) :
              calls[i].caller = c =>
                  /\ calls[i].device = switches[c].device
                  /\ calls[i].op \in {"turn_on", "turn_off"}
        /\ (\A i \in 1..Len(calls) : calls[i].caller = c) =>
              /\ Len(calls) = presses[c]
              /\ Len(stdout) = presses[c]

\* C2 witness: three presses of one controller and nothing else: three
\* device calls and three lines.
C2_Witness ==
    \E c \in Switches :
        /\ presses[c] = 3
        /\ Len(calls) = 3
        /\ Len(stdout) = 3
        /\ \A i \in 1..Len(calls) : calls[i].caller = c

\* C3: between presses, is_on is true if the controller's last device call
\* was turn_on, false if it was turn_off, and false if a default-constructed
\* controller has made no device call yet.
C3_FlagReflectsLastCall ==
    \A c \in Switches :
        LET ops == OpsBy(c)
        IN  IF ops = <<>>
            THEN Fresh(c) => ~switches[c].is_on
            ELSE switches[c].is_on <=> (Last(ops) = "turn_on")

\* C3 witness: one controller whose last call was turn_on and is ON, next
\* to one whose last call was turn_off and is OFF.
C3_Witness ==
    \E c1, c2 \in Switches :
        /\ OpsBy(c1) # <<>> /\ Last(OpsBy(c1)) = "turn_on"
        /\ switches[c1].is_on
        /\ OpsBy(c2) # <<>> /\ Last(OpsBy(c2)) = "turn_off"
        /\ ~switches[c2].is_on

\* C4: a controller built with only a device argument starts OFF, and
\* construction makes no device call and prints nothing.
C4_FreshIsOff ==
    /\ \A c \in Switches :
          (Fresh(c) /\ presses[c] = 0) =>
              /\ ~switches[c].is_on
              /\ OpsBy(c) = <<>>
              /\ emitted[c] = <<>>
    /\ ((\A c \in Switches : presses[c] = 0) /\ outcome[Direct] = "none") =>
          (calls = <<>> /\ stdout = <<>>)

\* C4 witness: main() right after constructing its switch.
C4_Witness ==
    /\ pc = "L38"
    /\ Fresh("switch")
    /\ presses["switch"] = 0
    /\ ~switches["switch"].is_on
    /\ calls = <<>>

\* C5: after exactly one press() on a fresh controller, is_on is true, the
\* turn_on line was printed exactly once and the turn_off line was not.
C5_FirstPress ==
    /\ \A c \in Switches :
          (Fresh(c) /\ presses[c] = 1) =>
              /\ switches[c].is_on
              /\ Count(emitted[c], OnLine) = 1
              /\ Count(emitted[c], OffLine) = 0
    /\ pc = "L39" => stdout = <<OnLine>>

\* C5 witness: main() after its first press.
C5_Witness ==
    /\ pc = "L39"
    /\ presses["switch"] = 1
    /\ switches["switch"].is_on
    /\ stdout = <<OnLine>>

\* C6: after two presses on a fresh controller, is_on is false and the
\* press calls printed one turn_on line and then one turn_off line; main()
\* never raises and ends with exactly that on stdout.
C6_TwoPresses ==
    /\ \A c \in Switches :
          (Fresh(c) /\ presses[c] = 2) =>
              /\ ~switches[c].is_on
              /\ emitted[c] = <<OnLine, OffLine>>
              /\ OpsBy(c) = <<"turn_on", "turn_off">>
    /\ pc # "raised"
    /\ pc = "done" =>
          /\ presses["switch"] = 2
          /\ stdout = <<OnLine, OffLine>>
          /\ ~switches["switch"].is_on

\* C6 witness: main() has terminated.
C6_Witness ==
    /\ pc = "done"
    /\ stdout = <<OnLine, OffLine>>
    /\ ~switches["switch"].is_on

\* C7: a press() on a controller that is ON calls turn_off on its device,
\* once, and leaves the controller OFF.
C7_PressWhenOn ==
    [][\A c \in Switches :
          (Pressed(c) /\ switches[c].is_on) =>
              /\ calls' = Append(calls, Call(c, switches[c].device, "turn_off"))
              /\ stdout' = Append(stdout, OffLine)
              /\ ~switches'[c].is_on]_vars

\* C7 witness: a controller constructed ON has been pressed once: its only
\* call is turn_off and it is OFF.
C7_Witness ==
    \E c \in Switches :
        /\ ctor[c] = "True"
        /\ presses[c] = 1
        /\ OpsBy(c) = <<"turn_off">>
        /\ ~switches[c].is_on

\* C8: a press() on a controller that is OFF calls turn_on on its device,
\* once, and leaves the controller ON.
C8_PressWhenOff ==
    [][\A c \in Switches :
          (Pressed(c) /\ ~switches[c].is_on) =>
              /\ calls' = Append(calls, Call(c, switches[c].device, "turn_on"))
              /\ stdout' = Append(stdout, OnLine)
              /\ switches'[c].is_on]_vars

\* C8 witness: a controller constructed OFF has been pressed once: its only
\* call is turn_on and it is ON.
C8_Witness ==
    \E c \in Switches :
        /\ ctor[c] = "False"
        /\ presses[c] = 1
        /\ OpsBy(c) = <<"turn_on">>
        /\ switches[c].is_on

\* C9: press() can be taken in both controller states and never raises: no
\* press has ended in a raise, and wherever the driver may press (and the
\* call bound is not reached) the press is enabled.
C9_PressNeverFails ==
    /\ \A c \in Switches : outcome[c] # "raised"
    /\ pc # "raised"
    /\ (pc = "client" /\ Len(calls) < MaxCalls) =>
          \A c \in Switches : ENABLED ClientPress(c)
    /\ (pc = "L38" /\ Len(calls) < MaxCalls) => ENABLED MainPress1
    /\ (pc = "L39" /\ Len(calls) < MaxCalls) => ENABLED MainPress2

\* C9 witness: presses have returned from both states: one controller is ON
\* and one OFF, each after a press from ON and a press from OFF.
C9_Witness ==
    \E c1, c2 \in Switches :
        /\ outcome[c1] = "returned" /\ outcome[c2] = "returned"
        /\ presses[c1] = 2 /\ switches[c1].is_on
        /\ presses[c2] = 2 /\ ~switches[c2].is_on

\* C10: the device is stateless and never rejects a redundant call: a direct
\* turn_on or turn_off is possible in every device history, returns, and
\* prints its line each time, so k direct calls print k lines.
C10_DeviceStateless ==
    /\ outcome[Direct] # "raised"
    /\ (pc = "client" /\ Len(calls) < MaxCalls) =>
          \A d \in Devices : ENABLED DirectTurnOn(d) /\ ENABLED DirectTurnOff(d)
    /\ Count(emitted[Direct], OnLine) = Count(OpsBy(Direct), "turn_on")
    /\ Count(emitted[Direct], OffLine) = Count(OpsBy(Direct), "turn_off")
    /\ Len(emitted[Direct]) = Len(OpsBy(Direct))

\* C10 witness: after a press, the same bulb was turned on directly three
\* times in a row and printed its line three times.
C10_Witness ==
    \E d \in Devices :
        /\ Len(calls) = 4
        /\ calls[1].caller # Direct
        /\ \A i \in 2..4 : calls[i] = Call(Direct, d, "turn_on")
        /\ \A i \in 2..4 : stdout[i] = OnLine
        /\ outcome[Direct] = "returned"

----------------------------------------------------------------------------
(* A controller pressed n times with nothing else touching its device *)

\* The instance controller c was constructed as.
Constructed(c) == ElectricPowerSwitch(switches[c].device, ctor[c])

\* The device calls of n presses of the lone controller sw, in order.
RECURSIVE solo_ops(_, _)
solo_ops(sw, n) ==
    IF n = 0 THEN <<>>
    ELSE press_calls(sw)
         \o solo_ops([sw EXCEPT !.is_on = flag_after_call(sw, TRUE)], n - 1)

\* The is_on flag of the lone controller sw after n presses.
RECURSIVE solo_flag(_, _)
solo_flag(sw, n) ==
    IF n = 0 THEN sw.is_on
    ELSE solo_flag([sw EXCEPT !.is_on = flag_after_call(sw, TRUE)], n - 1)

\* The positions in the call history of the calls made by caller c.
PositionsOf(c) == {i \in 1..Len(calls) : calls[i].caller = c}

----------------------------------------------------------------------------
(* The claims, continued *)

\* C11: the controller never inspects the device: whatever direct calls and
\* presses of other controllers (also on the same device) come between its
\* presses, its sequence of device calls and its is_on are those of the
\* same number of presses of that controller alone.
C11_IndependentOfDevice ==
    \A c \in Switches :
        /\ OpsBy(c) = solo_ops(Constructed(c), presses[c])
        /\ switches[c].is_on = solo_flag(Constructed(c), presses[c])

\* C11 witness: between two presses of a controller its device received a
\* call from somebody else; the controller still called turn_on, turn_off.
C11_Witness ==
    \E c \in Switches :
        /\ Fresh(c)
        /\ presses[c] = 2
        /\ OpsBy(c) = <<"turn_on", "turn_off">>
        /\ \E i, j, k \in 1..Len(calls) :
              /\ i < j /\ j < k
              /\ calls[i].caller = c /\ calls[k].caller = c
              /\ calls[j].caller # c
              /\ calls[j].device = switches[c].device
              /\ calls[j].op = "turn_on"

\* C12: the device calls of a fresh controller alternate, starting with
\* turn_on; no controller issues the same operation twice in a row, and a
\* fresh controller's turn_on count is its turn_off count or one more.
C12_CallsAlternate ==
    \A c \in Switches :
        LET ops == OpsBy(c)
        IN  /\ \A i \in 1..(Len(ops) - 1) : ops[i] # ops[i + 1]
            /\ Fresh(c) =>
                  /\ \A i \in 1..Len(ops) :
                        ops[i] = IF Odd(i) THEN "turn_on" ELSE "turn_off"
                  /\ Count(ops, "turn_on") - Count(ops, "turn_off") \in {0, 1}

\* C12 witness: a fresh controller after four presses: on, off, on, off.
C12_Witness ==
    \E c \in Switches :
        /\ Fresh(c)
        /\ OpsBy(c) = <<"turn_on", "turn_off", "turn_on", "turn_off">>

\* C13: when the device call of a press() raises, the raise reaches the
\* caller of press(), the call was made, is_on keeps its value, and so the
\* next press would make the same device call again.
C13_RaiseKeepsFlag ==
    [][\A c \in Switches :
          (Pressed(c) /\ switches[c].device = OtherDevice /\ broken) =>
              /\ outcome'[c] = "raised"
              /\ calls' = Append(calls, Call(c, OtherDevice,
                                             press_op(switches[c])))
              /\ switches'[c].is_on = switches[c].is_on
              /\ press_calls(switches'[c]) = press_calls(switches[c])]_vars

\* C13 witness: a fresh controller on the failing device was pressed twice,
\* both presses raised: it called turn_on twice and is still OFF.
C13_Witness ==
    \E c \in Switches :
        /\ Fresh(c)
        /\ switches[c].device = OtherDevice
        /\ presses[c] = 2
        /\ outcome[c] = "raised"
        /\ OpsBy(c) = <<"turn_on", "turn_on">>
        /\ ~switches[c].is_on

\* C14: press() on a controller changes nothing of the controllers but that
\* controller's is_on: its device reference, the other controllers (also
\* one bound to the same device) and the set of controllers stay as they
\* were; a direct device call changes no controller at all.
C14_PressFrame ==
    [][/\ DOMAIN switches' = DOMAIN switches
       /\ \A c \in Switches :
             /\ switches'[c].device = switches[c].device
             /\ ~Pressed(c) => switches'[c] = switches[c]]_vars

\* C14 witness: two controllers built alike on the same device; one was
\* pressed three times and is ON, the other was never pressed and is OFF.
C14_Witness ==
    \E c1, c2 \in Switches :
        /\ c1 # c2
        /\ switches[c1].device = switches[c2].device
        /\ ctor[c1] = "omitted" /\ ctor[c2] = "omitted"
        /\ presses[c1] = 3 /\ presses[c2] = 0
        /\ switches[c1].is_on
        /\ ~switches[c2].is_on

\* C15: the initial state is a constructor parameter: a controller built
\* with is_on=True starts ON, makes turn_off its first device call, and
\* after N presses is ON exactly when N is even.
C15_ConstructedOn ==
    \A c \in Switches :
        ctor[c] = "True" =>
            /\ switches[c].is_on <=> ~Odd(presses[c])
            /\ presses[c] >= 1 =>
                  (OpsBy(c) # <<>> /\ OpsBy(c)[1] = "turn_off")

\* C15 witness: a controller built with is_on=True after three presses:
\* turn_off, turn_on, turn_off, and OFF.
C15_Witness ==
    \E c \in Switches :
        /\ ctor[c] = "True"
        /\ presses[c] = 3
        /\ OpsBy(c) = <<"turn_off", "turn_on", "turn_off">>
        /\ ~switches[c].is_on

====
